---- MODULE Spec2Model ----
(***************************************************************************)
(* Model of the verifiable-credential verifier: the caching document       *)
(* loader (loadUrlDocument), the identity resolver (getPublicKeyFromDID)   *)
(* and the verification orchestrator (verifyCredentialSignature) of        *)
(* src/src/verification.js.                                                *)
(*                                                                         *)
(* Strings are sequences of tokens, so that startsWith, split, replace and *)
(* includes are computed on them.  JSON objects are functions from field   *)
(* names to values; an absent field is absent from the domain.             *)
(***************************************************************************)
EXTENDS Integers, Sequences, FiniteSets, TLC

\* ------------------------------------------------------------------ bounds
\* number of direct calls of the exported loadUrlDocument
MaxDirect == 1
\* number of documents the signature-verification unit loads
MaxUnitLoads == 1
\* number of credentials submitted to the page
MaxSubmissions == 2

\* ------------------------------------------------------------ JS values
Null == [isNull |-> TRUE]
Undefined == <<"<undefined>">>

Has(obj, f) == f \in DOMAIN obj
Get(obj, f) == IF f \in DOMAIN obj THEN obj[f] ELSE Undefined
\* !obj.f for an object-valued field f
Missing(obj, f) == obj = Null \/ f \notin DOMAIN obj \/ obj[f] = Null

\* template-literal conversion `${x}`
Str(x) == IF x = Undefined THEN <<"undefined">> ELSE x

\* ------------------------------------------------------- string helpers
StartsWith(s, p) == Len(s) >= Len(p) /\ SubSeq(s, 1, Len(p)) = p

\* String.prototype.includes for a one-token needle
Includes(s, tok) == \E i \in 1..Len(s) : s[i] = tok

\* index of the first occurrence of pattern p in s, 0 if none
IndexOfSeq(s, p) ==
  LET hits == {i \in 1..(Len(s) - Len(p) + 1) : SubSeq(s, i, i + Len(p) - 1) = p}
  IN IF hits = {} THEN 0 ELSE CHOOSE i \in hits : \A j \in hits : i <= j

\* s.replace(p, r) with a string pattern: the first occurrence only
ReplaceFirst(s, p, r) ==
  LET i == IndexOfSeq(s, p)
  IN IF i = 0 THEN s
     ELSE SubSeq(s, 1, i - 1) \o r \o SubSeq(s, i + Len(p), Len(s))

\* s.replace(/tok/g, r): every occurrence
ReplaceAll(s, tok, r) == [i \in 1..Len(s) |-> IF s[i] = tok THEN r ELSE s[i]]

\* s.split(sep)[k] for k = 0, 1
Split0(s, sep) ==
  LET i == IndexOfSeq(s, <<sep>>)
  IN IF i = 0 THEN s ELSE SubSeq(s, 1, i - 1)

Split1(s, sep) ==
  LET i == IndexOfSeq(s, <<sep>>)
      rest == SubSeq(s, i + 1, Len(s))
  IN IF i = 0 THEN Undefined ELSE Split0(rest, sep)

\* ------------------------------------------------------------ identifiers
DidWeb == <<"did", ":", "web", ":", "h">>
DidKey == <<"did", ":", "key", ":", "z">>
Urn == <<"urn", ":", "uuid", ":", "u">>
HttpsId == <<"https://", "h", "/", "issuer">>
CredV1 == <<"https://", "www.w3.org", "/", "2018/credentials/v1">>
SecV2 == <<"https://", "w3id.org", "/", "security/v2">>
SecV1 == <<"https://", "w3id.org", "/", "security/v1">>
OtherCtx == <<"https://", "h", "/", "ctx">>

OwnerIds == {DidWeb, DidKey, Urn, HttpsId}

\* ----------------------------------------------------------- CONTEXTS
CONTEXTS == [W3C_CREDENTIALS_V1 |-> "W3C_CREDENTIALS_V1",
             W3C_SECURITY |-> "W3C_SECURITY",
             FALLBACK |-> "FALLBACK"]

\* ------------------------------------------------- documents on the network
Frag1 == <<"#", "k1">>
Frag2 == <<"#", "k2">>
OtherDid == <<"did", ":", "web", ":", "other">>

KeyRecord(id, material) == [id |-> id, publicKeyBase58 |-> material]

\* bodies a server may return for the owning identifier did
DocBoth(did) ==
  [id |-> did,
   verificationMethod |-> <<KeyRecord(did \o Frag1, "A")>>,
   authentication |-> <<KeyRecord(did \o Frag1, "B")>>]
DocLegacy(did) ==
  [id |-> did,
   verificationMethod |-> <<KeyRecord(did \o Frag2, "B")>>,
   publicKey |-> <<KeyRecord(OtherDid \o Frag1, "B"), KeyRecord(Frag1, "A"),
                   KeyRecord(did \o Frag1, "C")>>]
DocNoMatch(did) ==
  [id |-> did,
   verificationMethod |-> <<KeyRecord(did \o Frag2, "B")>>]
DocAtId(did) ==
  ("@id" :> did) @@ [verificationMethod |-> <<KeyRecord(did \o Frag1, "A")>>]
DocAtIdNoMatch(did) ==
  ("@id" :> did) @@ [verificationMethod |-> <<KeyRecord(did \o Frag2, "B")>>]
UpstreamContext == ("@context" :> "UPSTREAM")
ParseFailure == [parseFailure |-> TRUE]

DidDocs(did) ==
  {DocBoth(did), DocLegacy(did), DocNoMatch(did), DocAtId(did),
   DocAtIdNoMatch(did)}

\* what response.json() may resolve to for a fetch made on behalf of url
Bodies(url) ==
  IF url \in OwnerIds THEN DidDocs(url) \cup {Null} ELSE {UpstreamContext}

\* settlements of fetch(): rejected, response.ok false, response.ok true
FetchOutcomes == {"reject", "notok", "ok"}

\* ------------------------------------------------------- loadUrlDocument
ResolvedDocument(url, doc) ==
  [contextUrl |-> "null", document |-> doc, documentUrl |-> url]

URN_PREFIX == <<"urn", ":">>
DID_PREFIX == <<"did", ":">>
DID_WEB_PREFIX == <<"did", ":", "web", ":">>

IsDidWeb(url) == StartsWith(url, DID_WEB_PREFIX)

\* the test of lines 139-142 without its DID clause
IsNotDereferencedUrnOnly(url) == StartsWith(url, URN_PREFIX)

\* lines 139-142: URNs and non-web DIDs are not dereferenced
IsNotDereferenced(url) ==
  StartsWith(url, URN_PREFIX)
    \/ (StartsWith(url, DID_PREFIX) /\ ~StartsWith(url, DID_WEB_PREFIX))

\* the conversion with `didParts.replace(":", "/")`: the first colon only
HttpsUrlFirstColon(url) ==
  LET didParts == ReplaceFirst(url, DID_WEB_PREFIX, <<>>)
  IN <<"https://">> \o ReplaceFirst(didParts, <<":">>, <<"/">>)
       \o <<"/", "did.json">>

\* lines 155-156
HttpsUrl(url) ==
  LET didParts == ReplaceFirst(url, DID_WEB_PREFIX, <<>>)
  IN <<"https://">> \o ReplaceAll(didParts, ":", "/") \o <<"/", "did.json">>

\* loadUrlDocumentCall without the cache lookup of lines 131-134
loadUrlDocumentCallNoLookup(url, cache) ==
  IF IsNotDereferenced(url)
  THEN LET result == ResolvedDocument(url, ("@id" :> url))
       IN [st |-> "returned", ret |-> result,
           cache |-> (url :> result) @@ cache, fetch |-> <<>>]
  ELSE IF IsDidWeb(url)
  THEN [st |-> "fetching", ret |-> Null, cache |-> cache,
        fetch |-> <<HttpsUrl(url)>>]
  ELSE [st |-> "fetching", ret |-> Null, cache |-> cache, fetch |-> <<url>>]

\* lines 131-184: the part of loadUrlDocument(url) that runs before its first
\* await: a cache hit or a non-dereferenced identifier returns at once,
\* anything else issues one fetch.
loadUrlDocumentCall(url, cache) ==
  IF url \in DOMAIN cache
  THEN [st |-> "returned", ret |-> cache[url], cache |-> cache, fetch |-> <<>>]
  ELSE IF IsNotDereferenced(url)
  THEN LET result == ResolvedDocument(url, ("@id" :> url))
       IN [st |-> "returned", ret |-> result,
           cache |-> (url :> result) @@ cache, fetch |-> <<>>]
  ELSE IF IsDidWeb(url)
  THEN [st |-> "fetching", ret |-> Null, cache |-> cache,
        fetch |-> <<HttpsUrl(url)>>]
  ELSE [st |-> "fetching", ret |-> Null, cache |-> cache, fetch |-> <<url>>]

\* a catch block that knows no inline context
loadUrlDocumentCatchNoInline(url) ==
  IF IsDidWeb(url)
  THEN ResolvedDocument(url, ("@id" :> url))
  ELSE ResolvedDocument(url, ("@context" :> CONTEXTS.FALLBACK))

\* lines 172-181 and 199-233: the value substituted for a failed fetch
loadUrlDocumentCatch(url) ==
  IF IsDidWeb(url)
  THEN ResolvedDocument(url, ("@id" :> url))
  ELSE IF url = CredV1
  THEN ResolvedDocument(url, ("@context" :> CONTEXTS.W3C_CREDENTIALS_V1))
  ELSE IF url = SecV2 \/ url = SecV1
  THEN ResolvedDocument(url, ("@context" :> CONTEXTS.W3C_SECURITY))
  ELSE ResolvedDocument(url, ("@context" :> CONTEXTS.FALLBACK))

\* lines 158-163 and 184-187: continuation after fetch() settled
loadUrlDocumentFetched(url, outcome, cache) ==
  IF outcome = "ok"
  THEN [st |-> "parsing", ret |-> Null, cache |-> cache]
  ELSE LET result == loadUrlDocumentCatch(url)
       IN [st |-> "returned", ret |-> result, cache |-> (url :> result) @@ cache]

\* lines 164-171 and 189-198: continuation after response.json() settled;
\* body is the parsed value, or ParseFailure when json() rejected
loadUrlDocumentParsed(url, body, cache) ==
  LET result == IF body = ParseFailure THEN loadUrlDocumentCatch(url)
                ELSE ResolvedDocument(url, body)
  IN [st |-> "returned", ret |-> result, cache |-> (url :> result) @@ cache]

\* --------------------------------------------------- getPublicKeyFromDID
Error(name, message) == [name |-> name, message |-> message]
Return(value) == [tag |-> "return", value |-> value]
Throw(error) == [tag |-> "throw", error |-> error]

\* array.find taking any entry whose identifier ends in the fragment
FindInBySuffix(array, verificationMethod) ==
  LET frag == Str(Split1(verificationMethod, "#"))
      hits == {i \in 1..Len(array) :
                 array[i].id[Len(array[i].id)] = frag[Len(frag)]}
  IN IF hits = {} THEN Null
     ELSE array[CHOOSE i \in hits : \A j \in hits : i <= j]

\* lines 281-285: array.find over one collection; Null when nothing matches
FindIn(array, verificationMethod) ==
  LET frag == <<"#">> \o Str(Split1(verificationMethod, "#"))
      hits == {i \in 1..Len(array) :
                 array[i].id = verificationMethod \/ array[i].id = frag}
  IN IF hits = {} THEN Null
     ELSE array[CHOOSE i \in hits : \A j \in hits : i <= j]

\* possibleArrays with authentication searched first
possibleArraysAuthFirst ==
  <<"authentication", "verificationMethod", "assertionMethod", "publicKey">>

\* lines 272-277
possibleArrays ==
  <<"verificationMethod", "authentication", "assertionMethod", "publicKey">>

\* lines 279-291: the loop over possibleArrays from position k on
RECURSIVE ScanFrom(_, _, _, _)
ScanFrom(order, k, didDocument, verificationMethod) ==
  IF k > Len(order) THEN Null
  ELSE LET key == IF Has(didDocument, order[k])
                  THEN FindIn(didDocument[order[k]], verificationMethod)
                  ELSE Null
       IN IF key # Null THEN key
          ELSE ScanFrom(order, k + 1, didDocument, verificationMethod)

\* line 263: the loaded document counts as not loaded
IsUnloaded(didDocument, did) ==
  didDocument = Null \/ Get(didDocument, "@id") = did

\* lines 256-299: the try block after loadUrlDocument(did) returned response
getPublicKeyTry(response, verificationMethod) ==
  LET did == Split0(verificationMethod, "#")
      didDocument == response.document
      publicKey == ScanFrom(possibleArrays, 1, didDocument, verificationMethod)
  IN IF IsUnloaded(didDocument, did)
     THEN Throw(Error("Error", <<"Failed to fetch", " DID document">>))
     ELSE IF publicKey = Null
     THEN Throw(Error("Error",
                      <<"Verification method ">> \o Str(verificationMethod)
                        \o <<" not found in DID document">>))
     ELSE Return(publicKey)

\* lines 300-306: the catch block
getPublicKeyCatch(outcome) ==
  IF outcome.tag = "throw" /\ Includes(outcome.error.message, "Failed to fetch")
  THEN Return(Null)
  ELSE outcome

getPublicKeyFromDID(response, verificationMethod) ==
  getPublicKeyCatch(getPublicKeyTry(response, verificationMethod))

\* ------------------------------------------------------------ credentials
SUITE == <<"Ed25519Signature2018">>

\* proof.jws is a signature made with key material key over the subject over
Proof(type, verificationMethod) ==
  [type |-> type, verificationMethod |-> verificationMethod,
   jws |-> [key |-> "A", over |-> "orig"]]

Credential(subject, proof) == [credentialSubject |-> subject, proof |-> proof]

Credentials ==
  {Null,
   [credentialSubject |-> "orig"],
   Credential("orig", Proof(<<"RsaSignature2018">>, DidWeb \o Frag1)),
   Credential("orig", [verificationMethod |-> DidWeb \o Frag1,
                       jws |-> [key |-> "A", over |-> "orig"]]),
   Credential("orig", [type |-> SUITE, jws |-> [key |-> "A", over |-> "orig"]]),
   Credential("mutated", Proof(SUITE, DidWeb \o Frag1))}
  \cup {Credential("orig", Proof(SUITE, did \o Frag1)) : did \in OwnerIds}

ProgressCallbacks == {"none", "ok"}

\* notifiers that throw when handed a given step and return normally
\* otherwise
ThrowsAt == [throwsAtStart |-> 10, throwsAtCheckProof |-> 25,
             throwsAtResolveDid |-> 50, throwsAtCreateKey |-> 65,
             throwsAtSetupSuite |-> 80, throwsAtVerify |-> 100,
             throwsNullAtStart |-> 10]
ThrowingCallbacks == DOMAIN ThrowsAt

\* what a throwing notifier throws: an Error, or `throw null`
NotifierError == Error("Error", <<"notifier failed">>)
NotifierThrown(progressCallback) ==
  IF progressCallback = "throwsNullAtStart" THEN Null ELSE NotifierError

\* --------------------------------------------- verifyCredentialSignature
PROGRESS_STEPS == [START |-> 10, CHECK_PROOF |-> 25, RESOLVE_DID |-> 50,
                   CREATE_KEY |-> 65, SETUP_SUITE |-> 80, VERIFY |-> 100]

\* a notifier handed every step twice
NotifyTwice(progressCallback, log, step) ==
  IF progressCallback = "none" THEN log ELSE Append(Append(log, step), step)

\* `if (progressCallback) progressCallback(step, ...)`: log is what the
\* notifier has been handed so far
Notify(progressCallback, log, step) ==
  IF progressCallback = "none" THEN log ELSE Append(log, step)

\* the call progressCallback(step, ...) throws
NotifierThrows(progressCallback, step) ==
  progressCallback \in ThrowingCallbacks /\ ThrowsAt[progressCallback] = step

MissingProofResult ==
  [verified |-> FALSE,
   error |-> <<"Invalid credential structure: missing proof">>]

\* an unsupported-type result that does not name the type
UnsupportedResultNoType(type) ==
  [verified |-> FALSE,
   error |-> <<"Unsupported proof type: ">>
               \o <<". Only Ed25519Signature2018 is supported.">>]

UnsupportedResult(type) ==
  [verified |-> FALSE,
   error |-> <<"Unsupported proof type: ">> \o Str(type)
               \o <<". Only Ed25519Signature2018 is supported.">>]

CorsResult ==
  [verified |-> FALSE, error |-> <<"Could not resolve verification method">>,
   errors |-> <<"CORS">>]

TimeoutResult ==
  [verified |-> FALSE,
   error |-> <<"Verification timed out. This may be due to network issues or complex credential processing.">>,
   errorType |-> "TIMEOUT"]

SafeModeResult(error) ==
  [verified |-> FALSE, error |-> <<"JSON-LD safe mode validation error.">>,
   errorType |-> "SAFE_MODE", originalError |-> error.message]

\* the promise verify returned is rejected with error: no result is returned
Rejected(error) == [thrown |-> error]

\* lines 416-436: the outer catch block.  Reading error.name of a thrown
\* null raises a TypeError inside the catch block, which leaves the function.
verifyCatch(error) ==
  IF error = Null
  THEN Rejected(Error("TypeError",
                      <<"Cannot read properties of null (reading 'name')">>))
  ELSE IF error.name = "jsonld.ValidationError"
          /\ Includes(error.message, "Safe mode")
  THEN SafeModeResult(error)
  ELSE [verified |-> FALSE, error |-> error.message]

\* verifyChecks without the proof.type test
verifyChecksNoType(credential) ==
  IF credential = Null \/ Missing(credential, "proof")
  THEN "missingProof"
  ELSE "pass"

\* lines 321-339: the two structural checks; "pass" when both are passed
verifyChecks(credential) ==
  IF credential = Null \/ Missing(credential, "proof")
  THEN "missingProof"
  ELSE IF Get(credential.proof, "type") # SUITE
  THEN "unsupported"
  ELSE "pass"

\* lines 319-351 and 248-260: verify from its call to the first await.
\* go is TRUE when loadUrlDocument(did) has been called.
verifyEntry(credential, progressCallback) ==
  LET check == verifyChecks(credential)
      proof == credential.proof
      verificationMethod == Get(proof, "verificationMethod")
      log1 == Notify(progressCallback, <<>>, PROGRESS_STEPS.START)
      log2 == Notify(progressCallback, log1, PROGRESS_STEPS.CHECK_PROOF)
      log3 == Notify(progressCallback, log2, PROGRESS_STEPS.RESOLVE_DID)
  IN IF check = "missingProof"
     THEN [go |-> FALSE, result |-> MissingProofResult, log |-> <<>>,
           trace |-> <<"Start", "Failed">>]
     ELSE IF NotifierThrows(progressCallback, PROGRESS_STEPS.START)
     THEN [go |-> FALSE, result |-> verifyCatch(NotifierThrown(progressCallback)), log |-> log1,
           trace |-> <<"Start", "Failed">>]
     ELSE IF check = "unsupported"
     THEN [go |-> FALSE, result |-> UnsupportedResult(Get(proof, "type")),
           log |-> log1, trace |-> <<"Start", "Failed">>]
     ELSE IF NotifierThrows(progressCallback, PROGRESS_STEPS.CHECK_PROOF)
     THEN [go |-> FALSE, result |-> verifyCatch(NotifierThrown(progressCallback)), log |-> log2,
           trace |-> <<"Start", "ProofChecked", "Failed">>]
     ELSE IF NotifierThrows(progressCallback, PROGRESS_STEPS.RESOLVE_DID)
     \* thrown inside the resolver's try: its catch decides (lines 300-306)
     THEN LET keyOutcome == getPublicKeyCatch(Throw(NotifierThrown(progressCallback)))
          IN [go |-> FALSE,
              result |-> IF keyOutcome.tag = "throw"
                         THEN verifyCatch(keyOutcome.error) ELSE CorsResult,
              log |-> log3, trace |-> <<"Start", "ProofChecked", "Failed">>]
     ELSE IF verificationMethod = Undefined
     \* verificationMethod.split throws a TypeError, rethrown by the
     \* resolver's catch and mapped by the outer catch
     THEN [go |-> FALSE,
           result |-> verifyCatch(Error("TypeError",
                        <<"Cannot read properties of undefined (reading 'split')">>)),
           log |-> log3, trace |-> <<"Start", "ProofChecked", "Failed">>]
     ELSE [go |-> TRUE, result |-> Null, log |-> log3,
           trace |-> <<"Start", "ProofChecked">>]

\* line 365: the key object made from the resolved record
Ed25519VerificationKey2018(publicKey) ==
  [id |-> publicKey.id, publicKeyBase58 |-> publicKey.publicKeyBase58]

\* a suite that binds a relative identifier after making it absolute
Ed25519Signature2018Absolute(key, verificationMethod) ==
  [key |-> key,
   verificationMethod |-> IF verificationMethod[1] = "#"
                          THEN DidWeb \o verificationMethod
                          ELSE verificationMethod]

\* lines 374-377: the suite made from the key and its binding
Ed25519Signature2018(key, verificationMethod) ==
  [key |-> key, verificationMethod |-> verificationMethod]

\* lines 348-381: verify from the resolver's outcome to the start of the race
verifyResume(progressCallback, log, keyOutcome) ==
  LET publicKey == keyOutcome.value
      log4 == Notify(progressCallback, log, PROGRESS_STEPS.CREATE_KEY)
      log5 == Notify(progressCallback, log4, PROGRESS_STEPS.SETUP_SUITE)
      log6 == Notify(progressCallback, log5, PROGRESS_STEPS.VERIFY)
  IN IF keyOutcome.tag = "throw"
     THEN [go |-> FALSE, result |-> verifyCatch(keyOutcome.error), log |-> log,
           suite |-> Null, trace |-> <<"Failed">>]
     ELSE IF publicKey = Null
     THEN [go |-> FALSE, result |-> CorsResult, log |-> log, suite |-> Null,
           trace |-> <<"Failed">>]
     ELSE IF NotifierThrows(progressCallback, PROGRESS_STEPS.CREATE_KEY)
     THEN [go |-> FALSE, result |-> verifyCatch(NotifierThrown(progressCallback)), log |-> log4,
           suite |-> Null, trace |-> <<"KeyResolved", "Failed">>]
     ELSE IF NotifierThrows(progressCallback, PROGRESS_STEPS.SETUP_SUITE)
     THEN [go |-> FALSE, result |-> verifyCatch(NotifierThrown(progressCallback)), log |-> log5,
           suite |-> Null,
           trace |-> <<"KeyResolved", "KeyMaterialized", "Failed">>]
     ELSE IF NotifierThrows(progressCallback, PROGRESS_STEPS.VERIFY)
     THEN [go |-> FALSE, result |-> verifyCatch(NotifierThrown(progressCallback)), log |-> log6,
           suite |-> Ed25519Signature2018(Ed25519VerificationKey2018(publicKey),
                                          publicKey.id),
           trace |-> <<"KeyResolved", "KeyMaterialized", "SuiteAssembled",
                       "Failed">>]
     ELSE [go |-> TRUE, result |-> Null, log |-> log6,
           suite |-> Ed25519Signature2018(Ed25519VerificationKey2018(publicKey),
                                          publicKey.id),
           trace |-> <<"KeyResolved", "KeyMaterialized", "SuiteAssembled">>]

\* a timer error whose message lacks the word the catch block looks for
TimeoutErrorOtherWording == Error("Error", <<"Verification took longer than 10 seconds">>)

\* lines 385-390: what the timer rejects the race with
TimeoutError == Error("Error", <<"Verification ", "timeout", " after 10 seconds">>)

\* verifySettled reporting success whenever jsigs.verify resolved
verifySettledIgnoresVerdict(settlement) ==
  IF settlement.tag = "return" THEN [verified |-> TRUE]
  ELSE IF Includes(settlement.error.message, "timeout") THEN TimeoutResult
  ELSE verifyCatch(settlement.error)

\* lines 393-415: the race settled with settlement (a resolved value or a
\* rejection)
verifySettled(settlement) ==
  IF settlement.tag = "return" THEN settlement.value
  ELSE IF Includes(settlement.error.message, "timeout") THEN TimeoutResult
  ELSE verifyCatch(settlement.error)

\* jsigs.verify (external): whether the signature in proof.jws verifies
\* under the suite's key over the credential as presented
SignatureValid(credential, suite) ==
  /\ credential.proof.jws.key = suite.key.publicKeyBase58
  /\ credential.proof.jws.over = credential.credentialSubject

\* the ways jsigs.verify may settle
UnitSettlements(credential, suite) ==
  {Return([verified |-> FALSE, error |-> <<"VerificationError">>]),
   Throw(Error("jsonld.ValidationError", <<"Safe mode", " validation error.">>)),
   Throw(Error("Error", <<"canonize failed">>)),
   Throw(Error("Error", <<"Request ", "timeout", " while loading context">>))}
  \cup (IF SignatureValid(credential, suite)
        THEN {Return([verified |-> TRUE])} ELSE {})

\* the error kind a result object stands for (spec section 7)
Kind(r) ==
  IF r.verified THEN "Verified"
  ELSE IF Has(r, "errors") /\ Includes(r.errors, "CORS") THEN "UnresolvableIdentity"
  ELSE IF Has(r, "errorType") /\ r.errorType = "SAFE_MODE" THEN "SafeModeRestricted"
  ELSE IF Has(r, "errorType") /\ r.errorType = "TIMEOUT" THEN "Timeout"
  ELSE IF r = MissingProofResult THEN "MalformedCredential"
  ELSE IF StartsWith(r.error, <<"Unsupported proof type: ">>) THEN "UnsupportedProofType"
  ELSE IF StartsWith(r.error, <<"Verification method ">>)
          /\ r.error[Len(r.error)] = " not found in DID document"
  THEN "MissingVerificationMethod"
  ELSE "CryptographicFailure"

\* ------------------------------------------------------------------ state
VARIABLES
  documentCache,    \* the module-level Map: identifier -> ResolvedDocument
  fetchCount,       \* number of fetch() calls issued so far
  fetchedUrls,      \* the URLs fetch() was called with
  loads,            \* the loadUrlDocument call of each caller
  lastRet,          \* the most recent return of loadUrlDocument, any caller
  directCalls,      \* direct calls of loadUrlDocument made so far
  pc,               \* position of the verifyCredentialSignature invocation
  credential,       \* its arguments
  progressCallback,
  suite,            \* its local
  result,           \* what it returned
  trace,            \* orchestrator states passed, in order
  delivered,        \* milestones handed to the notifier, in order
  unit,             \* jsigs.verify: not started, running, or how it settled
  unitLoads,        \* documents jsigs.verify has asked the loader for
  timer,            \* setTimeout of the race: "unset", "armed", "fired"
  winner,           \* what settled the race first: "none", "unit", "timer"
  submissions,      \* the page: calls of processCredential so far, each
                    \* with the position of its verification
  credentialInfo,   \* the page's credential section and whose data it shows
  verificationProgress,  \* its progress section and the steps listed in it
  results           \* its result section and the screen shown in it

loaderVars == <<documentCache, fetchCount, fetchedUrls, loads, lastRet>>
verifyVars == <<pc, credential, progressCallback, suite, result, trace,
                delivered, timer, winner>>
uiVars == <<submissions, credentialInfo, verificationProgress, results>>
coreVars == <<documentCache, fetchCount, fetchedUrls, loads, lastRet,
              directCalls, pc, credential, progressCallback, suite, result,
              trace, delivered, unit, unitLoads, timer, winner>>
vars == <<documentCache, fetchCount, fetchedUrls, loads, lastRet, directCalls,
          pc, credential, progressCallback, suite, result, trace, delivered,
          unit, unitLoads, timer, winner,
          submissions, credentialInfo, verificationProgress, results>>

\* the callers of loadUrlDocument: the resolver (line 260), jsigs.verify
\* through its documentLoader option (line 397), and any importer of the
\* exported function
Callers == {"resolver", "unit", "direct"}

\* identifiers a direct caller or jsigs.verify asks for
LoadUrls == {DidWeb, Urn, CredV1}
UnitUrls == {CredV1, DidWeb}

UnitNone == [st |-> "none", settlement |-> Null]
UnitRunning == [st |-> "running", settlement |-> Null]
UnitSettled(settlement) == [st |-> "settled", settlement |-> settlement]

IdleLoad == [st |-> "idle", url |-> <<>>, ret |-> Null]

\* the page before anything is submitted: the three sections are hidden,
\* as resetUI (main.js lines 489-493) leaves them
PageLoaded ==
  /\ submissions = <<>>
  /\ credentialInfo = [hidden |-> TRUE, of |-> 0]
  /\ verificationProgress = [hidden |-> TRUE, steps |-> <<>>, active |-> FALSE]
  /\ results = [hidden |-> TRUE, screen |-> "none", of |-> 0]
NoRet == [url |-> <<>>, ret |-> Null]

Init ==
  /\ documentCache = <<>>
  /\ fetchCount = 0
  /\ fetchedUrls = {}
  /\ loads = [c \in Callers |-> IdleLoad]
  /\ lastRet = NoRet
  /\ directCalls = 0
  /\ pc = "idle"
  /\ credential \in Credentials
  /\ progressCallback \in ProgressCallbacks
  /\ suite = Null
  /\ result = Null
  /\ trace = <<>>
  /\ delivered = <<>>
  /\ unit = UnitNone
  /\ unitLoads = 0
  /\ timer = "unset"
  /\ winner = "none"
  /\ PageLoaded

\* ---------------------------------------------------------------- loader
\* caller c calls loadUrlDocument(url)
LoadCall(c, url) ==
  LET r == loadUrlDocumentCall(url, documentCache)
  IN /\ loads' = [loads EXCEPT ![c] = [st |-> r.st, url |-> url, ret |-> r.ret]]
     /\ documentCache' = r.cache
     /\ fetchCount' = fetchCount + Len(r.fetch)
     /\ fetchedUrls' = fetchedUrls \cup {r.fetch[i] : i \in 1..Len(r.fetch)}
     /\ lastRet' = IF r.st = "returned" THEN [url |-> url, ret |-> r.ret]
                   ELSE lastRet

\* the fetch() of caller c's load settles
FetchSettle(c, outcome) ==
  /\ loads[c].st = "fetching"
  /\ LET url == loads[c].url
         r == loadUrlDocumentFetched(url, outcome, documentCache)
     IN /\ loads' = [loads EXCEPT ![c] = [st |-> r.st, url |-> url, ret |-> r.ret]]
        /\ documentCache' = r.cache
        /\ lastRet' = IF r.st = "returned" THEN [url |-> url, ret |-> r.ret]
                      ELSE lastRet
  /\ UNCHANGED <<fetchCount, fetchedUrls, directCalls, unit, unitLoads>>
  /\ UNCHANGED verifyVars
  /\ UNCHANGED uiVars

\* the response.json() of caller c's load settles
JsonSettle(c, body) ==
  /\ loads[c].st = "parsing"
  /\ LET url == loads[c].url
         r == loadUrlDocumentParsed(url, body, documentCache)
     IN /\ loads' = [loads EXCEPT ![c] = [st |-> r.st, url |-> url, ret |-> r.ret]]
        /\ documentCache' = r.cache
        /\ lastRet' = [url |-> url, ret |-> r.ret]
  /\ UNCHANGED <<fetchCount, fetchedUrls, directCalls, unit, unitLoads>>
  /\ UNCHANGED verifyVars
  /\ UNCHANGED uiVars

\* an importer calls loadUrlDocument(url) once its previous call returned
DirectLoad(url) ==
  /\ directCalls < MaxDirect
  /\ loads["direct"].st \in {"idle", "returned"}
  /\ directCalls' = directCalls + 1
  /\ LoadCall("direct", url)
  /\ UNCHANGED <<unit, unitLoads>>
  /\ UNCHANGED verifyVars
  /\ UNCHANGED uiVars

\* ---------------------------------------------------------- orchestrator
\* verifyCredentialSignature(credential, progressCallback) is called and
\* runs to its first await or to an early return
VerifyCall ==
  /\ pc = "idle"
  /\ LET e == verifyEntry(credential, progressCallback)
     IN /\ trace' = e.trace
        /\ delivered' = e.log
        /\ result' = e.result
        /\ IF e.go
           THEN /\ pc' = "resolving"
                /\ LoadCall("resolver", Split0(credential.proof.verificationMethod, "#"))
           ELSE /\ pc' = "done"
                /\ UNCHANGED loaderVars
  /\ UNCHANGED <<credential, progressCallback, suite, timer, winner,
                 directCalls, unit, unitLoads>>
  /\ UNCHANGED uiVars

\* the await of loadUrlDocument(did) resumes: the rest of the resolver and
\* the orchestrator up to Promise.race
ResolveKey ==
  /\ pc = "resolving"
  /\ loads["resolver"].st = "returned"
  /\ LET keyOutcome == getPublicKeyFromDID(loads["resolver"].ret,
                                           credential.proof.verificationMethod)
         r == verifyResume(progressCallback, delivered, keyOutcome)
     IN /\ trace' = trace \o r.trace
        /\ delivered' = r.log
        /\ suite' = r.suite
        /\ result' = r.result
        /\ IF r.go
           THEN pc' = "racing" /\ timer' = "armed" /\ unit' = UnitRunning
           ELSE pc' = "done" /\ UNCHANGED <<timer, unit>>
  /\ UNCHANGED <<credential, progressCallback, winner, directCalls, unitLoads>>
  /\ UNCHANGED loaderVars
  /\ UNCHANGED uiVars

\* a race that lets every settlement through, not only the first
RaceNeverCloses == pc \in {"racing", "done"}

\* the race is still open: nothing has settled it
RaceOpen == pc = "racing"

\* jsigs.verify asks its documentLoader for url
UnitLoad(url) ==
  /\ unit.st = "running"
  /\ unitLoads < MaxUnitLoads
  /\ loads["unit"].st \in {"idle", "returned"}
  /\ unitLoads' = unitLoads + 1
  /\ LoadCall("unit", url)
  /\ UNCHANGED <<directCalls, unit>>
  /\ UNCHANGED verifyVars
  /\ UNCHANGED uiVars

\* a race whose every settlement reaches verify, the late ones too
RaceSettleLast(by, settlement) ==
  /\ result' = verifySettled(settlement)
  /\ winner' = by
  /\ pc' = "done"
  /\ trace' = Append(trace, IF result'.verified THEN "Verified" ELSE "Failed")

\* lines 393-402: a settlement of the race reaches verify only if it is the
\* first one
RaceSettle(by, settlement) ==
  IF RaceOpen
  THEN /\ result' = verifySettled(settlement)
       /\ winner' = by
       /\ pc' = "done"
       /\ trace' = Append(trace, IF result'.verified THEN "Verified" ELSE "Failed")
  ELSE UNCHANGED <<result, winner, pc, trace>>

\* jsigs.verify settles
UnitSettle ==
  /\ unit.st = "running"
  /\ loads["unit"].st \in {"idle", "returned"}
  /\ \E settlement \in UnitSettlements(credential, suite) :
       /\ unit' = UnitSettled(settlement)
       /\ RaceSettle("unit", settlement)
  /\ UNCHANGED <<credential, progressCallback, suite, delivered, timer,
                 directCalls, unitLoads>>
  /\ UNCHANGED loaderVars
  /\ UNCHANGED uiVars

\* the 10 second timer fires
TimerFire ==
  /\ timer = "armed"
  /\ timer' = "fired"
  /\ RaceSettle("timer", Throw(TimeoutError))
  /\ UNCHANGED <<credential, progressCallback, suite, delivered, directCalls,
                 unit, unitLoads>>
  /\ UNCHANGED loaderVars
  /\ UNCHANGED uiVars

Next ==
  \/ VerifyCall
  \/ ResolveKey
  \/ \E url \in UnitUrls : UnitLoad(url)
  \/ UnitSettle
  \/ TimerFire
  \/ \E url \in LoadUrls : DirectLoad(url)
  \/ \E c \in Callers : \E o \in FetchOutcomes : FetchSettle(c, o)
  \/ \E c \in Callers : \E b \in Bodies(loads[c].url) \cup {ParseFailure} : JsonSettle(c, b)

Spec == Init /\ [][Next]_vars

\* One invocation of verify and the network, without other callers of the
\* loader.  The event loop runs every continuation that is ready and the
\* timer fires once armed; nothing obliges fetch(), response.json() or
\* jsigs.verify to settle.
LiveNext ==
  \/ VerifyCall
  \/ ResolveKey
  \/ \E url \in UnitUrls : UnitLoad(url)
  \/ UnitSettle
  \/ TimerFire
  \/ \E c \in Callers : \E o \in FetchOutcomes : FetchSettle(c, o)
  \/ \E c \in Callers : \E b \in Bodies(loads[c].url) \cup {ParseFailure} : JsonSettle(c, b)

LiveSpec ==
  /\ Init
  /\ [][LiveNext]_vars
  /\ WF_vars(VerifyCall)
  /\ WF_vars(ResolveKey)
  /\ WF_vars(TimerFire)

\* The loader on its own: an importer calls the exported loadUrlDocument
\* with identifiers of every class and the network answers.
DidWebPath == <<"did", ":", "web", ":", "h", ":", "users", ":", "alice">>
LoaderUrls ==
  {DidWeb, DidWebPath, DidKey, Urn, HttpsId, CredV1, SecV2, SecV1, OtherCtx}

LoaderNext ==
  \/ \E url \in LoaderUrls : DirectLoad(url)
  \/ \E o \in FetchOutcomes : FetchSettle("direct", o)
  \/ \E b \in Bodies(loads["direct"].url) \cup {ParseFailure} :
       JsonSettle("direct", b)

LoaderSpec == Init /\ [][LoaderNext]_vars

\* ------------------------------------------------------- the page (main.js)
\* main.js lines 315-343
validateCredentialStructure(c) ==
  /\ c # Null
  /\ ~Missing(c, "proof")
  /\ Has(c.proof, "type")
  /\ Has(c.proof, "verificationMethod")
  /\ c.proof.type = SUITE

\* credentials a user drops on the page
UiCredentials ==
  {Credential("orig", Proof(SUITE, DidWeb \o Frag1)),
   Credential("mutated", Proof(SUITE, DidWeb \o Frag1)),
   Credential("orig", Proof(<<"RsaSignature2018">>, DidWeb \o Frag1)),
   [credentialSubject |-> "orig"]}

\* main.js lines 399-414: the notifier the page passes to verify lists a
\* step for three of the milestones
StepTitle(step) ==
  CASE step = PROGRESS_STEPS.RESOLVE_DID -> <<"Resolving DID">>
    [] step = PROGRESS_STEPS.CREATE_KEY -> <<"Creating verification key">>
    [] step = PROGRESS_STEPS.VERIFY -> <<"Verifying signature">>
    [] OTHER -> <<>>
RECURSIVE StepTitles(_)
StepTitles(log) ==
  IF log = <<>> THEN <<>> ELSE StepTitle(Head(log)) \o StepTitles(Tail(log))

\* main.js lines 460-483: addProgressStep for each title; the last is active
addProgressSteps(progress, titles) ==
  IF titles = <<>> THEN progress
  ELSE [progress EXCEPT !.steps = @ \o titles, !.active = TRUE]

\* the branch of verifyCredential with the timeout test left out
verifyCredentialShowNoTimeout(outcome) ==
  IF "thrown" \in DOMAIN outcome THEN "showError"
  ELSE IF outcome.verified THEN "showSuccess"
  ELSE IF Has(outcome, "errors") /\ Includes(outcome.errors, "CORS")
  THEN "showPartialSuccess"
  ELSE IF Has(outcome, "errorType") /\ outcome.errorType = "SAFE_MODE"
  THEN "showPartialSuccessForSafeMode"
  ELSE "showFailure"

\* main.js lines 417-434: the screen verifyCredential shows for what verify
\* settled with (a result, or a rejection caught at line 432)
verifyCredentialShow(outcome) ==
  IF "thrown" \in DOMAIN outcome THEN "showError"
  ELSE IF outcome.verified THEN "showSuccess"
  ELSE IF Has(outcome, "errors") /\ Includes(outcome.errors, "CORS")
  THEN "showPartialSuccess"
  ELSE IF Has(outcome, "errorType") /\ outcome.errorType = "SAFE_MODE"
  THEN "showPartialSuccessForSafeMode"
  ELSE IF Has(outcome, "errorType") /\ outcome.errorType = "TIMEOUT"
  THEN "showTimeoutError"
  ELSE "showFailure"

\* main.js lines 507-583 and 692-696: showResult for submission k;
\* showError hides the two other sections first
ShowScreen(k, screen) ==
  /\ results' = [hidden |-> FALSE, screen |-> screen, of |-> k]
  /\ verificationProgress' =
       [verificationProgress EXCEPT
          !.active = FALSE,
          !.hidden = IF screen = "showError" THEN TRUE ELSE @]
  /\ credentialInfo' =
       [credentialInfo EXCEPT
          !.hidden = IF screen = "showError" THEN TRUE ELSE @]

Submission(c, st, s, r) ==
  [credential |-> c, st |-> st, suite |-> s, result |-> r]

\* what loadUrlDocument may hand the resolver for the owning identifier
LoaderReturns(did) ==
  {ResolvedDocument(did, b) : b \in Bodies(did)} \cup {loadUrlDocumentCatch(did)}

\* main.js lines 294-308 and 383-397: processCredential(c) up to the await
\* of verifyCredentialSignature, whose first part runs within the call; for
\* a credential that passed validateCredentialStructure that part ends at
\* the await of the loader
processCredential(c) ==
  /\ Len(submissions) < MaxSubmissions
  /\ LET k == Len(submissions) + 1
         e == verifyEntry(c, "ok")
     IN IF ~validateCredentialStructure(c)
        THEN /\ submissions' = Append(submissions, Submission(c, "rejected", Null, Null))
             /\ results' = [hidden |-> FALSE, screen |-> "showError", of |-> k]
             /\ verificationProgress' =
                  [verificationProgress EXCEPT !.hidden = TRUE, !.active = FALSE]
             /\ credentialInfo' = [credentialInfo EXCEPT !.hidden = TRUE]
        ELSE /\ submissions' =
                  Append(submissions,
                         Submission(c, "resolving", Null, Null))
             /\ results' = [results EXCEPT !.hidden = TRUE]
             /\ credentialInfo' = [hidden |-> FALSE, of |-> k]
             /\ verificationProgress' =
                  addProgressSteps(
                    [hidden |-> FALSE,
                     steps |-> <<"Starting verification", "Checking proof format">>,
                     active |-> TRUE],
                    StepTitles(e.log))
  /\ UNCHANGED coreVars

\* the verification of submission k gets the owning document: the resolver
\* and verify run on to the race, or verify returns and the page shows the
\* screen
VerificationResumes(k, response) ==
  /\ submissions[k].st = "resolving"
  /\ LET c == submissions[k].credential
         keyOutcome == getPublicKeyFromDID(response, c.proof.verificationMethod)
         r == verifyResume("ok", <<>>, keyOutcome)
     IN IF r.go
        THEN /\ submissions' =
                  [submissions EXCEPT ![k] = Submission(c, "racing", r.suite, Null)]
             /\ verificationProgress' =
                  addProgressSteps(verificationProgress, StepTitles(r.log))
             /\ UNCHANGED <<results, credentialInfo>>
        ELSE /\ submissions' =
                  [submissions EXCEPT ![k] = Submission(c, "shown", Null, r.result)]
             /\ ShowScreen(k, verifyCredentialShow(r.result))
  /\ UNCHANGED coreVars

\* the race of submission k settles, verify returns and the page shows the
\* screen (main.js lines 417-434)
VerificationReturns(k, settlement) ==
  /\ submissions[k].st = "racing"
  /\ LET r == verifySettled(settlement)
     IN /\ submissions' =
             [submissions EXCEPT ![k] = Submission(@.credential, "shown", @.suite, r)]
        /\ ShowScreen(k, verifyCredentialShow(r))
  /\ UNCHANGED coreVars

UiNext ==
  \/ \E c \in UiCredentials : processCredential(c)
  \/ \E k \in 1..Len(submissions) :
       \E response \in LoaderReturns(Split0(DidWeb \o Frag1, "#")) :
         VerificationResumes(k, response)
  \/ \E k \in 1..Len(submissions) :
       /\ submissions[k].st = "racing"
       /\ \E settlement \in UnitSettlements(submissions[k].credential,
                                             submissions[k].suite)
                              \cup {Throw(TimeoutError)} :
            VerificationReturns(k, settlement)

\* the page alone; verify is not called from anywhere else
UiInit == Init /\ credential = Null /\ progressCallback = "none"

UiSpec == UiInit /\ [][UiNext]_vars

\* verify called with any notifier, one that throws at some step included
NotifierInit ==
  /\ documentCache = <<>>
  /\ fetchCount = 0
  /\ fetchedUrls = {}
  /\ loads = [c \in Callers |-> IdleLoad]
  /\ lastRet = NoRet
  /\ directCalls = 0
  /\ pc = "idle"
  /\ credential \in Credentials
  /\ progressCallback \in ProgressCallbacks \cup ThrowingCallbacks
  /\ suite = Null
  /\ result = Null
  /\ trace = <<>>
  /\ delivered = <<>>
  /\ unit = UnitNone
  /\ unitLoads = 0
  /\ timer = "unset"
  /\ winner = "none"
  /\ PageLoaded

NotifierSpec == NotifierInit /\ [][LiveNext]_vars

\* ================================================================ claims
\* the invocation of verify is made in this step
VerifyCalled == pc = "idle" /\ pc' # "idle"

NoProof(c) == c = Null \/ "proof" \notin DOMAIN c
WrongType(c) ==
  /\ ~NoProof(c)
  /\ ("type" \notin DOMAIN c.proof \/ c.proof.type # <<"Ed25519Signature2018">>)

\* C1: a credential without proof, or whose proof.type is missing or is not
\* Ed25519Signature2018, makes verify return MalformedCredential
\* (no proof) or UnsupportedProofType (wrong or missing type) at once, and
\* the invocation issues no fetch and leaves documentCache as it was.
C1_BadProofFailsWithoutNetwork ==
  [][(VerifyCalled /\ (NoProof(credential) \/ WrongType(credential)))
       => /\ pc' = "done"
          /\ NoProof(credential) => Kind(result') = "MalformedCredential"
          /\ WrongType(credential) => Kind(result') = "UnsupportedProofType"
          /\ fetchCount' = fetchCount
          /\ documentCache' = documentCache]_vars

\* an unsupported type was rejected while the cache already held a document
C1_Witness ==
  /\ pc = "done"
  /\ WrongType(credential)
  /\ Kind(result) = "UnsupportedProofType"
  /\ documentCache # <<>>
  /\ fetchCount = 1

\* C2: every invocation of verify eventually returns a result, whatever the
\* network does, a fetch that never settles included; only the timer is
\* assumed to fire.
C2_EveryInvocationReturns == <>(pc = "done")

\* C3: once the suite is assembled and the race is on, if jsigs.verify never
\* settles then the timer fires and verify returns Timeout; verify is
\* never pending after the timer has fired.
C3_TimeoutWhenUnitStalls ==
  /\ (pc = "racing")
       ~> (unit.st = "settled"
             \/ (timer = "fired" /\ pc = "done" /\ Kind(result) = "Timeout"))
  /\ [](timer = "fired" => pc = "done")

\* the timer won the race against a unit that has not settled
C3_Witness ==
  /\ pc = "done"
  /\ timer = "fired"
  /\ winner = "timer"
  /\ unit.st = "running"
  /\ Kind(result) = "Timeout"

Tampered(c) ==
  /\ ~NoProof(c)
  /\ "jws" \in DOMAIN c.proof
  /\ c.credentialSubject # c.proof.jws.over

\* C4: for a credential changed after signing (the signature check reports
\* it invalid) verify never returns Verified, and when the check
\* reports before the timer fires the result is CryptographicFailure.
C4_InvalidSignatureNeverVerified ==
  (pc = "done" /\ Tampered(credential))
    => /\ ~result.verified
       /\ (winner = "unit" /\ unit.settlement.tag = "return")
            => Kind(result) = "CryptographicFailure"

\* the check reported a tampered credential invalid before the timer fired
C4_Witness ==
  /\ pc = "done"
  /\ Tampered(credential)
  /\ winner = "unit"
  /\ unit.settlement.tag = "return"
  /\ Kind(result) = "CryptographicFailure"

Chain ==
  <<"Start", "ProofChecked", "KeyResolved", "KeyMaterialized", "SuiteAssembled">>
Terminal == {"Verified", "Failed"}
IsPrefix(s, t) == Len(s) <= Len(t) /\ SubSeq(t, 1, Len(s)) = s
Ended(t) == t # <<>> /\ t[Len(t)] \in Terminal

\* t is an initial part of the chain, possibly closed by one terminal state,
\* and Verified closes the whole chain only
WellOrdered(t) ==
  \/ IsPrefix(t, Chain)
  \/ /\ Ended(t)
     /\ Len(t) >= 2
     /\ IsPrefix(SubSeq(t, 1, Len(t) - 1), Chain)
     /\ t[Len(t)] = "Verified" => SubSeq(t, 1, Len(t) - 1) = Chain

\* C5: within an invocation the orchestrator only advances along Start,
\* ProofChecked, KeyResolved, KeyMaterialized, SuiteAssembled and then
\* Verified or Failed: nothing is skipped before Verified, nothing is
\* entered twice, a terminal state is never left and its result never
\* changes, and Verified is entered from SuiteAssembled only.
C5_StatesAdvanceInOrder ==
  [][/\ WellOrdered(trace')
     /\ IsPrefix(trace, trace')
     /\ Ended(trace) => (trace' = trace /\ result' = result /\ pc' = pc)
     /\ (pc' = "done") = Ended(trace')
     /\ Ended(trace') => (result'.verified = (trace'[Len(trace')] = "Verified"))]_vars

\* a whole chain ending in Verified, and both contenders of the race have
\* settled since
C5_Witness ==
  /\ trace = Chain \o <<"Verified">>
  /\ unit.st = "settled"
  /\ timer = "fired"

\* what the loader substitutes for a document it did not obtain
Substitutes(url) ==
  {("@id" :> url), ("@context" :> "W3C_CREDENTIALS_V1"),
   ("@context" :> "W3C_SECURITY"), ("@context" :> "FALLBACK")}

\* the resolver's load has returned a substitute for the owning document
NotObtained ==
  /\ loads["resolver"].st = "returned"
  /\ loads["resolver"].ret.document \in Substitutes(loads["resolver"].url)

\* C6: whenever the loader could not obtain the real document of the owning
\* identifier (network error, non-success status, parse failure, or an
\* identifier that is not dereferenced), for every class of identifier,
\* plain HTTPS ones included, verify returns UnresolvableIdentity.
C6_UnobtainedIsUnresolvable ==
  (pc = "done" /\ NotObtained) => Kind(result) = "UnresolvableIdentity"

\* caller c calls loadUrlDocument in this step
Called(c) ==
  CASE c = "resolver" -> pc = "idle" /\ pc' = "resolving"
    [] c = "unit" -> unitLoads' # unitLoads
    [] c = "direct" -> directCalls' # directCalls

\* C7: a call load(i) that directly follows the return of a call load(i)
\* (no other call of the loader returned in between) returns the same
\* ResolvedDocument at once, issues no fetch and leaves documentCache as
\* it was.
C7_SecondLoadIsCacheHit ==
  [][\A c \in Callers :
       (Called(c) /\ loads'[c].url = lastRet.url)
         => /\ loads'[c].st = "returned"
            /\ loads'[c].ret = lastRet.ret
            /\ fetchCount' = fetchCount
            /\ documentCache' = documentCache]_vars

\* two callers hold the same fetched document and one fetch was made for it
C7_Witness ==
  \E c1, c2 \in Callers :
    /\ c1 # c2
    /\ loads[c1].st = "returned" /\ loads[c2].st = "returned"
    /\ loads[c1].url = DidWeb /\ loads[c2].url = DidWeb
    /\ loads[c1].ret = loads[c2].ret
    /\ loads[c1].ret.document = DocBoth(DidWeb)
    /\ fetchCount = 1

IsUrn(i) == Len(i) >= 2 /\ i[1] = "urn" /\ i[2] = ":"
IsNonWebDid(i) ==
  /\ Len(i) >= 4
  /\ i[1] = "did" /\ i[2] = ":" /\ i[3] # "web" /\ i[4] = ":"

\* C8: for an identifier i that is a URN or a DID of a method other than
\* web, load(i) returns at once a document whose only field is the
\* identifier field, equal to i, and issues no fetch.
C8_PlaceholderWithoutNetwork ==
  [][\A c \in Callers :
       (Called(c) /\ (IsUrn(loads'[c].url) \/ IsNonWebDid(loads'[c].url)))
         => /\ loads'[c].st = "returned"
            /\ loads'[c].ret.document = ("@id" :> loads'[c].url)
            /\ loads'[c].ret.documentUrl = loads'[c].url
            /\ fetchCount' = fetchCount]_vars

\* a URN and a non-web DID have been loaded and no fetch was ever made
C8_Witness ==
  /\ loads["direct"].st = "returned" /\ loads["direct"].url = Urn
  /\ loads["resolver"].st = "returned" /\ loads["resolver"].url = DidKey
  /\ loads["resolver"].ret.document = ("@id" :> DidKey)
  /\ fetchCount = 0

SearchOrder ==
  <<"verificationMethod", "authentication", "assertionMethod", "publicKey">>
MatchesMethod(entry, vm) ==
  entry.id = vm \/ entry.id = <<"#">> \o Split1(vm, "#")
\* positions <<k, i>>: entry i of the k-th collection matches vm
MatchPositions(doc, vm) ==
  {p \in (1..4) \X (1..3) :
     /\ SearchOrder[p[1]] \in DOMAIN doc
     /\ p[2] <= Len(doc[SearchOrder[p[1]]])
     /\ MatchesMethod(doc[SearchOrder[p[1]]][p[2]], vm)}
Earlier(p, q) == p[1] < q[1] \/ (p[1] = q[1] /\ p[2] <= q[2])
FirstMatch(doc, vm) ==
  LET ps == MatchPositions(doc, vm)
      p == CHOOSE x \in ps : \A y \in ps : Earlier(x, y)
  IN doc[SearchOrder[p[1]]][p[2]]

\* C9: the key the resolver returns is the first matching entry of the
\* first of verificationMethod, authentication, assertionMethod, publicKey
\* that has a match; with the same fragment in verificationMethod and in
\* authentication under different key material, it is the
\* verificationMethod entry.
C9_FirstCollectionWins ==
  suite # Null
    => LET doc == loads["resolver"].ret.document
           expected == FirstMatch(doc, credential.proof.verificationMethod)
       IN /\ suite.verificationMethod = expected.id
          /\ suite.key.publicKeyBase58 = expected.publicKeyBase58

\* the fragment was in both collections and the verificationMethod entry,
\* with key material A, was taken
C9_Witness ==
  /\ suite # Null
  /\ loads["resolver"].ret.document = DocBoth(DidWeb)
  /\ suite.key.publicKeyBase58 = "A"

\* the resolver's load has returned a document served for the owning
\* identifier
Obtained ==
  /\ loads["resolver"].st = "returned"
  /\ loads["resolver"].ret.document \in DidDocs(loads["resolver"].url)

\* C10: if the owning document was obtained and none of its four
\* collections has a matching entry, verify returns
\* MissingVerificationMethod with a message naming the verification method
\* (so neither UnresolvableIdentity nor Verified).
C10_NoMatchIsMissingMethod ==
  (/\ pc = "done"
   /\ Obtained
   /\ MatchPositions(loads["resolver"].ret.document,
                     credential.proof.verificationMethod) = {})
    => /\ Kind(result) = "MissingVerificationMethod"
       /\ LET vm == credential.proof.verificationMethod
          IN SubSeq(result.error, 2, 1 + Len(vm)) = vm

\* C11: the result of verify does not depend on the notifier.  Every step
\* of an invocation, made with whatever notifier was supplied (none, one
\* that returns normally, one that throws), ends as the same step made
\* without a notifier on the same credential and the same answer of the
\* network: it returns the same result or goes on in the same way.
C11_ResultIndependentOfNotifier ==
  [][/\ VerifyCalled
          => LET e == verifyEntry(credential, "none")
             IN /\ (pc' = "resolving") = e.go
                /\ result' = e.result
     /\ (pc = "resolving" /\ pc' # "resolving")
          => LET keyOutcome ==
                   getPublicKeyFromDID(loads["resolver"].ret,
                                       credential.proof.verificationMethod)
                 r == verifyResume("none", <<>>, keyOutcome)
             IN /\ (pc' = "racing") = r.go
                /\ result' = r.result]_vars

\* the milestones Start, ProofChecked, KeyResolved, KeyMaterialized,
\* SuiteAssembled, Verified in their fixed order
MilestoneOrder ==
  <<PROGRESS_STEPS.START, PROGRESS_STEPS.CHECK_PROOF, PROGRESS_STEPS.RESOLVE_DID,
    PROGRESS_STEPS.CREATE_KEY, PROGRESS_STEPS.SETUP_SUITE, PROGRESS_STEPS.VERIFY>>

\* C12: in every invocation the milestones handed to the notifier so far
\* are an initial part of Start, ProofChecked, KeyResolved, KeyMaterialized,
\* SuiteAssembled, Verified (so each at most once and none before an
\* earlier one), and a milestone once delivered stays delivered.
C12_MilestonesInOrder ==
  [][/\ IsPrefix(delivered', MilestoneOrder)
     /\ IsPrefix(delivered, delivered')]_vars

\* all six milestones were delivered and verify has returned
C12_Witness ==
  /\ pc = "done"
  /\ delivered = MilestoneOrder

\* the owning document was obtained, has an entry matching the verification
\* method, and proof.jws is a valid signature of the credential under that
\* entry's key
ValidUnderMatchingKey ==
  /\ Obtained
  /\ LET doc == loads["resolver"].ret.document
         vm == credential.proof.verificationMethod
     IN /\ MatchPositions(doc, vm) # {}
        /\ SignatureValid(credential, [key |-> FirstMatch(doc, vm)])

\* C13: when proof.verificationMethod resolves to a document with a
\* matching key entry, the signature is valid under that key, the timer did
\* not fire first and the signature check, once it settled, reported the
\* signature valid, verify returns Verified.
C13_ValidSignatureIsVerified ==
  (/\ pc = "done"
   /\ ValidUnderMatchingKey
   /\ winner # "timer"
   /\ unit.st = "settled" => unit.settlement = Return([verified |-> TRUE]))
    => Kind(result) = "Verified"

\* C14: for a credential whose proof.type is a string t other than
\* Ed25519Signature2018, verify returns UnsupportedProofType and the
\* message of the result contains t.
C14_MessageNamesTheType ==
  (/\ pc = "done"
   /\ WrongType(credential)
   /\ "type" \in DOMAIN credential.proof)
    => /\ Kind(result) = "UnsupportedProofType"
       /\ IndexOfSeq(result.error, credential.proof.type) # 0

\* verify has returned for the RsaSignature2018 credential and the message
\* holds that name
C14_Witness ==
  /\ pc = "done"
  /\ ~NoProof(credential)
  /\ Get(credential.proof, "type") = <<"RsaSignature2018">>
  /\ IndexOfSeq(result.error, <<"RsaSignature2018">>) = 2

\* C15: under every interleaving of loads, an identifier the cache maps to
\* a value is mapped to that same value ever after: no entry is removed and
\* none is overwritten with a different value.
C15_CacheEntriesNeverChange ==
  [][\A i \in DOMAIN documentCache :
       /\ i \in DOMAIN documentCache'
       /\ documentCache'[i] = documentCache[i]]_vars

\* C16: verify returns Timeout exactly when the timer fired before
\* jsigs.verify settled; when jsigs.verify settles first, by resolving or by
\* rejecting with whatever error, the result is never Timeout.
C16_TimeoutIffTimerWon ==
  pc = "done" => ((Kind(result) = "Timeout") <=> (winner = "timer"))

\* the loader's placeholder for an owning document it could not reach
Placeholder(did) == ("@id" :> did)

\* C17: for the document the loader returned to the resolver, the resolver
\* returns None exactly when that document is the placeholder (its only
\* field is the identifier field, equal to the owning identifier); a
\* document with that identifier and a key-bearing collection is scanned.
C17_NoneOnlyForPlaceholder ==
  loads["resolver"].st = "returned"
    => LET vm == credential.proof.verificationMethod
           did == Split0(vm, "#")
           response == loads["resolver"].ret
       IN (getPublicKeyFromDID(response, vm) = Return(Null))
            <=> (response.document = Placeholder(did))

\* r is what loadUrlDocument(url) returns after a fetch for url failed: the
\* placeholder for a did:web identifier, an inline context or the catch-all
\* for another URL
FromFailedFetch(url, r) ==
  /\ ~IsNotDereferenced(url)
  /\ r.document \in Substitutes(url)

\* caller c's call of loadUrlDocument returns in this step
Returns(c) == loads'[c] # loads[c] /\ loads'[c].st = "returned"

\* C18: a value load(i) returns after a failed fetch is in the cache under i
\* when it is returned, and every call load(i) made after that return
\* returns that same value at once and without a fetch, whatever the
\* network would answer now.
C18_FailureValueIsSticky ==
  [][\A c \in Callers :
       /\ (Returns(c) /\ FromFailedFetch(loads'[c].url, loads'[c].ret))
            => /\ loads'[c].url \in DOMAIN documentCache'
               /\ documentCache'[loads'[c].url] = loads'[c].ret
       /\ \A earlier \in Callers :
            (/\ Called(c)
             /\ loads[earlier].st = "returned"
             /\ loads[earlier].url = loads'[c].url
             /\ FromFailedFetch(loads[earlier].url, loads[earlier].ret))
              => /\ loads'[c].st = "returned"
                 /\ loads'[c].ret = loads[earlier].ret
                 /\ fetchCount' = fetchCount]_vars

\* verify returned a result object; its promise was not rejected
ResultReturned == "verified" \in DOMAIN result

\* the exception is of the class that stands for a safe-mode restriction
SafeModeClass(error) == error.name = "jsonld.ValidationError"

\* C19: whatever is thrown during an invocation with a non-null credential,
\* verify returns a result and nothing reaches the caller as an exception;
\* when jsigs.verify rejects with an error of the safe-mode class the result
\* is SafeModeRestricted, and when it rejects with any other error the result
\* is the generic failure carrying that error's message.
C19_ExceptionsBecomeResults ==
  (pc = "done" /\ credential # Null)
    => /\ ResultReturned
       /\ (winner = "unit" /\ unit.settlement.tag = "throw")
            => LET error == unit.settlement.error
               IN IF SafeModeClass(error)
                  THEN Kind(result) = "SafeModeRestricted"
                  ELSE result = [verified |-> FALSE, error |-> error.message]

\* C20: every call of load with a string identifier whose network exchange
\* has settled, in whatever way, has returned a ResolvedDocument triple
\* whose document is not null.
C20_LoadReturnsADocument ==
  \A c \in Callers :
    loads[c].st = "returned"
      => /\ DOMAIN loads[c].ret = {"contextUrl", "document", "documentUrl"}
         /\ loads[c].ret.document # Null

\* the orchestrator state each milestone is named after
StateOfMilestone(step) ==
  CASE step = PROGRESS_STEPS.START -> "Start"
    [] step = PROGRESS_STEPS.CHECK_PROOF -> "ProofChecked"
    [] step = PROGRESS_STEPS.RESOLVE_DID -> "KeyResolved"
    [] step = PROGRESS_STEPS.CREATE_KEY -> "KeyMaterialized"
    [] step = PROGRESS_STEPS.SETUP_SUITE -> "SuiteAssembled"
    [] step = PROGRESS_STEPS.VERIFY -> "Verified"

\* C21: a milestone has been delivered only if the orchestrator has entered
\* the state of the same name: KeyResolved only after the resolver returned
\* a key record, Verified only when the result is Verified.
C21_MilestoneFollowsTransition ==
  \A k \in 1..Len(delivered) :
    \E j \in 1..Len(trace) : trace[j] = StateOfMilestone(delivered[k])

\* verify has returned Timeout because the timer won the race
TimedOut == pc = "done" /\ winner = "timer" /\ Kind(result) = "Timeout"

\* jsigs.verify takes a step: it asks for a document, one of its loads
\* moves on, or it settles
UnitStep == unit' # unit \/ loads'["unit"] # loads["unit"]

\* C22: once the timer has won and verify has returned Timeout, a later
\* step of the abandoned jsigs.verify, whether it ends well or badly, leaves
\* everything but documentCache (and its own progress) as it was: the
\* result stays Timeout, the invocation stays returned, and the loads of
\* the other callers are untouched.
C22_LateUnitStepsAreHarmless ==
  [][(TimedOut /\ UnitStep)
       => /\ result' = result
          /\ TimedOut'
          /\ trace' = trace
          /\ delivered' = delivered
          /\ suite' = suite
          /\ credential' = credential
          /\ timer' = timer
          /\ \A c \in Callers \ {"unit"} : loads'[c] = loads[c]]_vars

\* jsigs.verify fetched a document and settled after the timer had won
C22_Witness ==
  /\ TimedOut
  /\ unit.st = "settled"
  /\ loads["unit"].st = "returned"
  /\ loads["unit"].url = CredV1
  /\ CredV1 \in DOMAIN documentCache

\* C23: the suite is assembled from a key record of the owning document
\* that matches the verification method, and it is bound to that record's
\* own identifier, also when the record matched by fragment alone and its
\* identifier is not the caller's proof.verificationMethod.
C23_SuiteBoundToRecordId ==
  suite # Null
    => LET doc == loads["resolver"].ret.document
           vm == credential.proof.verificationMethod
       IN \E p \in MatchPositions(doc, vm) :
            LET record == doc[SearchOrder[p[1]]][p[2]]
            IN /\ suite.key.id = record.id
               /\ suite.key.publicKeyBase58 = record.publicKeyBase58
               /\ suite.verificationMethod = record.id

\* the record matched by fragment alone and the suite is bound to its
\* relative identifier, not to proof.verificationMethod
C23_Witness ==
  /\ suite # Null
  /\ loads["resolver"].ret.document = DocLegacy(DidWeb)
  /\ suite.verificationMethod = Frag1
  /\ suite.verificationMethod # credential.proof.verificationMethod

\* an identifier that is neither a URN nor a decentralized identifier
IsPlainUrl(i) == ~StartsWith(i, <<"urn", ":">>) /\ ~StartsWith(i, <<"did", ":">>)

\* what the claim expects load to answer a failed fetch of a plain URL with
ExpectedInline(i) ==
  IF i = <<"https://", "www.w3.org", "/", "2018/credentials/v1">>
  THEN ("@context" :> CONTEXTS.W3C_CREDENTIALS_V1)
  ELSE IF i \in {<<"https://", "w3id.org", "/", "security/v2">>,
                 <<"https://", "w3id.org", "/", "security/v1">>}
  THEN ("@context" :> CONTEXTS.W3C_SECURITY)
  ELSE ("@context" :> CONTEXTS.FALLBACK)

\* C24: for an identifier that is neither a URN nor a DID, a load whose
\* fetch fails (network error or non-success status: the load returns
\* straight from fetching) or whose body does not parse returns the
\* credentials context for the credentials context URL, the security
\* context for the security context URLs, and the catch-all context for
\* every other identifier.
C24_InlineContextOnFailure ==
  [][\A c \in Callers :
       LET url == loads[c].url
       IN /\ (loads[c].st = "fetching" /\ loads'[c].st = "returned"
                /\ IsPlainUrl(url))
               => /\ loads'[c].ret.document = ExpectedInline(url)
                  /\ loads'[c].ret.documentUrl = url
          /\ (loads[c].st = "parsing" /\ IsPlainUrl(url))
               => loadUrlDocumentParsed(url, ParseFailure, documentCache)
                    .ret.document = ExpectedInline(url)]_vars

\* the fetch of the security context failed and the inline security context
\* was returned
C24_Witness ==
  /\ loads["direct"].st = "returned"
  /\ loads["direct"].url = SecV2
  /\ loads["direct"].ret.document = ("@context" :> CONTEXTS.W3C_SECURITY)
  /\ fetchCount = 1

\* i is did:web:<host> followed by colon-separated path segments
IsWebMethodId(i) ==
  /\ Len(i) >= 5 /\ Len(i) % 2 = 1
  /\ SubSeq(i, 1, 4) = <<"did", ":", "web", ":">>
  /\ \A k \in 5..Len(i) : (i[k] = ":") = (k % 2 = 0)

\* https://<host>/<segment>/.../did.json for such an identifier: host and
\* segments in their order, a path separator between them
DidJsonUrl(i) ==
  LET rest == SubSeq(i, 5, Len(i))
  IN <<"https://">> \o [k \in 1..Len(rest) |-> IF k % 2 = 0 THEN "/" ELSE rest[k]]
       \o <<"/", "did.json">>

\* C25: a load of did:web:<host>[:<segment>]* that goes to the network
\* issues exactly one fetch, of https://<host>/<segment>/.../did.json.
C25_WebMethodUrl ==
  [][\A c \in Callers :
       (Called(c) /\ IsWebMethodId(loads'[c].url) /\ loads'[c].st = "fetching")
         => /\ fetchCount' = fetchCount + 1
            /\ fetchedUrls' = fetchedUrls \cup {DidJsonUrl(loads'[c].url)}]_vars

\* the identifier with two path segments was fetched from its path
C25_Witness ==
  /\ loads["direct"].url = DidWebPath
  /\ loads["direct"].st = "returned"
  /\ fetchedUrls =
       {<<"https://", "h", "/", "users", "/", "alice", "/", "did.json">>}

\* the relative form of the verification method <did>#<fragment>
RelativeForm(vm) == <<"#", vm[Len(vm)]>>

\* entries of array that the claim counts as matches of vm
Matching(array, vm) ==
  {i \in 1..Len(array) : array[i].id \in {vm, RelativeForm(vm)}}

\* C26: in every key-bearing collection of the owning document, the entry
\* the resolver's search selects is the first one, in collection order,
\* whose identifier is the full verification method or # followed by its
\* fragment, and nothing when there is none; an entry with another full
\* identifier ending in the same fragment is never selected.
C26_FirstMatchingEntry ==
  Obtained
    => LET doc == loads["resolver"].ret.document
           vm == credential.proof.verificationMethod
       IN \A k \in 1..4 :
            SearchOrder[k] \in DOMAIN doc
              => LET array == doc[SearchOrder[k]]
                     m == Matching(array, vm)
                     found == FindIn(array, vm)
                 IN /\ m = {} => found = Null
                    /\ m # {} => \E i \in m :
                                   /\ \A j \in m : i <= j
                                   /\ found = array[i]
                    /\ found # KeyRecord(OtherDid \o Frag1, "B")

\* the legacy collection starts with a foreign identifier of the same
\* fragment and then holds two matching entries: the first of the two, the
\* relative one, was taken
C26_Witness ==
  /\ suite # Null
  /\ Obtained
  /\ LET doc == loads["resolver"].ret.document
         vm == credential.proof.verificationMethod
     IN /\ "publicKey" \in DOMAIN doc
        /\ Matching(doc.publicKey, vm) = {2, 3}
        /\ suite.key = doc.publicKey[2]

\* the screen the claim assigns to each kind of result
ScreenOfKind(kind) ==
  CASE kind = "Verified" -> "showSuccess"
    [] kind = "UnresolvableIdentity" -> "showPartialSuccess"
    [] kind = "SafeModeRestricted" -> "showPartialSuccessForSafeMode"
    [] kind = "Timeout" -> "showTimeoutError"
    [] OTHER -> "showFailure"

\* verify returns to the page for submission k in this step
ReturnsTo(k) ==
  /\ k <= Len(submissions)
  /\ submissions[k].st \in {"resolving", "racing"}
  /\ submissions'[k].st = "shown"

\* C27: when verify returns a result to the page, the result section shows
\* one screen, chosen by the result alone: success only for Verified, the
\* partial screen for UnresolvableIdentity, the safe-mode partial screen for
\* SafeModeRestricted, the timeout screen for Timeout and the failure
\* screen for every other result.
C27_ScreenFollowsResult ==
  [][\A k \in 1..MaxSubmissions :
       ReturnsTo(k)
         => results' = [hidden |-> FALSE,
                        screen |-> ScreenOfKind(Kind(submissions'[k].result)),
                        of |-> k]]_vars

\* a verification that timed out is shown on the timeout screen
C27_Witness ==
  /\ ~results.hidden
  /\ results.screen = "showTimeoutError"
  /\ submissions[results.of].st = "shown"
  /\ submissions[results.of].result = TimeoutResult

\* no verification started by the page is still in flight
NothingInFlight ==
  \A k \in 1..Len(submissions) : submissions[k].st \in {"rejected", "shown"}

\* C28: when a second credential is submitted while the first is still
\* being verified, a result screen is never shown under the information of
\* another credential than the one it belongs to, and once every
\* verification has returned the screen displayed is that of the credential
\* submitted last.
C28_ScreenBelongsToLatest ==
  /\ (~results.hidden /\ ~credentialInfo.hidden)
       => results.of = credentialInfo.of
  /\ (submissions # <<>> /\ NothingInFlight /\ ~results.hidden)
       => results.of = Len(submissions)

====
